---------------------------- MODULE Spec2Model ----------------------------
(***************************************************************************)
(* Model of the immutable receipts service ("Project 7/receipts/service.py"):*)
(* a hash-chained receipt ledger kept in one SQLite table and served by     *)
(* FastAPI handlers.                                                        *)
(*                                                                          *)
(* Every handler is an `async def` that contains no await: the event loop   *)
(* of the single uvicorn process the module starts runs each handler to     *)
(* completion before the next one, so one handler is one action.            *)
(*                                                                          *)
(* Optional values (Python None / a value) are sequences of length 0 / 1.   *)
(* Timestamps are TEXT compared by the database; they are modelled by       *)
(* naturals carrying the same total order.                                  *)
(***************************************************************************)
EXTENDS Integers, Sequences, FiniteSets

VARIABLES db, resp

vars == <<db, resp>>

\* ------------------------------------------------------------------ bounds
MaxReceipts == 3
MaxTime == 3

\* ------------------------------------------------------------ value domains
None == <<>>
Some(x) == <<x>>

\* Python truthiness of an Optional[str] (None and "" are false) and of an
\* Optional[dict] (None and {} are false).
TruthyStr(o) == o # None /\ o[1] # ""
TruthyDict(o) == o # None /\ o[1] # {}

CallerIds == {"a"}
UuidSeq == <<"u1", "u2", "u3", "u4", "u5">>
DocumentHashes == {"", "h1", "h2"}
Signatures == {"sig"}
Types == {"pdf_signing"}
Timestamps == 1..MaxTime
\* a dict is a set of <<key, value>> pairs
Dicts == {{}, {<<"k", "v">>}}

\* json.dumps / json.loads on the dicts above
JsonDumps(d) == IF d = {} THEN "{}" ELSE "{\"k\": \"v\"}"
JsonLoads(s) == IF s = "{}" THEN {} ELSE {<<"k", "v">>}

\* class ReceiptCreate
ReceiptCreate ==
    [id : {None, Some("")} \cup {Some(i) : i \in CallerIds},
     document_hash : DocumentHashes,
     signature : Signatures,
     timestamp : Timestamps,
     type : Types,
     metadata : {None} \cup {Some(d) : d \in Dicts}]

Range(s) == {s[i] : i \in 1..Len(s)}

\* ------------------------------------------------------------- SQL queries
\* SELECT * FROM receipts WHERE id = ?   (fetchone; id is the primary key)
SelectById(rows, id) == {r \in Range(rows) : r.id = id}

\* Fault variant: ORDER BY timestamp ASC.
InsertAsc(sorted, r) ==
    LET k == Cardinality({i \in 1..Len(sorted) : sorted[i].timestamp <= r.timestamp})
    IN  SubSeq(sorted, 1, k) \o <<r>> \o SubSeq(sorted, k + 1, Len(sorted))
\* Fault variant: among equal timestamps the newest row sorts first.
InsertDescTiesFirst(sorted, r) ==
    LET k == Cardinality({i \in 1..Len(sorted) : sorted[i].timestamp > r.timestamp})
    IN  SubSeq(sorted, 1, k) \o <<r>> \o SubSeq(sorted, k + 1, Len(sorted))
\* ORDER BY timestamp DESC over a scan in rowid order: rows with equal
\* timestamps keep their rowid order.
InsertDesc(sorted, r) ==
    LET k == Cardinality({i \in 1..Len(sorted) : sorted[i].timestamp >= r.timestamp})
    IN  SubSeq(sorted, 1, k) \o <<r>> \o SubSeq(sorted, k + 1, Len(sorted))

RECURSIVE OrderByTimestampDesc(_)
OrderByTimestampDesc(rows) ==
    IF rows = <<>> THEN <<>>
    ELSE InsertDesc(OrderByTimestampDesc(SubSeq(rows, 1, Len(rows) - 1)), rows[Len(rows)])

\* Fault variant: the page starts one row early (OFFSET off by one).
LimitOffsetOneEarly(s, limit, offset) ==
    LET off == IF offset < 1 THEN 0 ELSE offset - 1
        lim == IF limit < 0 THEN Len(s) ELSE limit
        last == IF off + lim > Len(s) THEN Len(s) ELSE off + lim
    IN  SubSeq(s, off + 1, last)
\* LIMIT ? OFFSET ?: a negative LIMIT is no limit, a negative OFFSET is 0.
LimitOffset(s, limit, offset) ==
    LET off == IF offset < 0 THEN 0 ELSE offset
        lim == IF limit < 0 THEN Len(s) ELSE limit
        last == IF off + lim > Len(s) THEN Len(s) ELSE off + lim
    IN  SubSeq(s, off + 1, last)

\* Fault variant: the tip is the row inserted last, whatever its timestamp.
get_last_inserted_hash(rows) ==
    IF rows # <<>> THEN Some(rows[Len(rows)].document_hash) ELSE None
\* Fault variant: ORDER BY timestamp ASC LIMIT 1.
get_earliest_receipt_hash(rows) ==
    IF rows # <<>>
    THEN Some(OrderByTimestampDesc(rows)[Len(rows)].document_hash)
    ELSE None
\* def get_latest_receipt_hash
get_latest_receipt_hash(rows) ==
    LET result == LimitOffset(OrderByTimestampDesc(rows), 1, 0)
    IN  IF result # <<>> THEN Some(result[1].document_hash) ELSE None

\* dict(row) with the metadata column parsed when it is truthy
RowToReceipt(row) ==
    IF TruthyStr(row.metadata)
    THEN [row EXCEPT !.metadata = Some(JsonLoads(row.metadata[1]))]
    ELSE row

\* str(uuid.uuid4()): an identifier no stored receipt has
UsedIds == {r.id : r \in Range(db)}
FreshUuid ==
    UuidSeq[CHOOSE i \in 1..Len(UuidSeq) :
                /\ UuidSeq[i] \notin UsedIds
                /\ \A j \in 1..(i - 1) : UuidSeq[j] \in UsedIds]

\* ------------------------------------------------------------------- state
Init ==
    /\ db = <<>>
    /\ resp = [op |-> "none", status |-> 0]

\* Fault variant: a table whose id column carries no key constraint.
NoPrimaryKey(rows, id) == FALSE
\* CREATE TABLE receipts (id TEXT PRIMARY KEY, ...): an INSERT whose id is
\* already a key raises sqlite3.IntegrityError.
PrimaryKeyExists(rows, id) == SelectById(rows, id) # {}

\* Fault variant: the write replaces the newest row instead of adding one.
InsertRowReplacingLast(rows, receipt_data) ==
    IF rows = <<>> THEN <<receipt_data>>
    ELSE [rows EXCEPT ![Len(rows)] = receipt_data]
\* Fault variant: the metadata column is left out of the written row.
InsertRowDroppingMetadata(rows, receipt_data) ==
    Append(rows, [receipt_data EXCEPT !.metadata = None])
\* The INSERT of create_receipt, committed: one new row at the next rowid.
InsertRow(rows, receipt_data) == Append(rows, receipt_data)

\* Fault variant: closing after a failure also discards the oldest row.
CloseDroppingOldest(rows, receipt_data) ==
    IF rows = <<>> THEN rows ELSE Tail(rows)
\* Fault variant: the failed request's row is kept.
CloseKeepingInsert(rows, receipt_data) == Append(rows, receipt_data)
\* The except branches of create_receipt: the connection is closed without a
\* commit, so the table is as it was before the INSERT.
CloseWithoutCommit(rows, receipt_data) == rows

\* POST /receipts.  storage_error: the INSERT or the commit raises something
\* other than sqlite3.IntegrityError.
create_receipt(receipt, storage_error) ==
    LET id == IF ~TruthyStr(receipt.id) THEN FreshUuid ELSE receipt.id[1]
        previous_hash == get_latest_receipt_hash(db)
        receipt_data ==
            [id |-> id,
             document_hash |-> receipt.document_hash,
             signature |-> receipt.signature,
             timestamp |-> receipt.timestamp,
             type |-> receipt.type,
             previous_hash |-> previous_hash,
             metadata |-> IF TruthyDict(receipt.metadata)
                          THEN Some(JsonDumps(receipt.metadata[1]))
                          ELSE None]
    IN  /\ IF storage_error
           THEN /\ db' = CloseWithoutCommit(db, receipt_data)
                /\ resp' = [op |-> "create_receipt", status |-> 500, id |-> id]
           ELSE IF PrimaryKeyExists(db, id)
           THEN /\ db' = CloseWithoutCommit(db, receipt_data)
                /\ resp' = [op |-> "create_receipt", status |-> 400, id |-> id]
           ELSE /\ db' = InsertRow(db, receipt_data)
                /\ resp' = [op |-> "create_receipt", status |-> 201, id |-> id,
                            body |-> RowToReceipt(receipt_data)]
        /\ Len(db') <= MaxReceipts

\* Fault variant: a get that removes the row it returns.
get_receipt_and_remove(receipt_id, html) ==
    LET result == SelectById(db, receipt_id)
    IN  /\ db' = SelectSeq(db, LAMBDA r : r.id # receipt_id)
        /\ IF result = {}
           THEN resp' = [op |-> "get_receipt", status |-> 404, id |-> receipt_id]
           ELSE resp' = [op |-> "get_receipt", status |-> 200, id |-> receipt_id,
                         html |-> html,
                         body |-> RowToReceipt(CHOOSE r \in result : TRUE)]
\* GET /receipts/{receipt_id}
get_receipt(receipt_id, html) ==
    LET result == SelectById(db, receipt_id)
    IN  /\ db' = db
        /\ IF result = {}
           THEN resp' = [op |-> "get_receipt", status |-> 404, id |-> receipt_id]
           ELSE resp' = [op |-> "get_receipt", status |-> 200, id |-> receipt_id,
                         html |-> html,
                         body |-> RowToReceipt(CHOOSE r \in result : TRUE)]

\* GET /receipts?limit&offset
list_receipts(limit, offset) ==
    LET total == Len(db)
        results == LimitOffset(OrderByTimestampDesc(db), limit, offset)
    IN  /\ db' = db
        /\ resp' = [op |-> "list_receipts", status |-> 200,
                    total |-> total, offset |-> offset, limit |-> limit,
                    receipts |-> [i \in 1..Len(results) |-> RowToReceipt(results[i])]]

\* Fault variant: the comparison is reversed (timestamp > ?).
SelectPreviousLater(rows, previous_hash, timestamp) ==
    {r \in Range(rows) : r.document_hash = previous_hash /\ r.timestamp > timestamp}
\* Fault variant: only the receipt next below in timestamp may match.
SelectPreviousImmediate(rows, previous_hash, timestamp) ==
    {r \in Range(rows) : /\ r.document_hash = previous_hash
                         /\ r.timestamp < timestamp
                         /\ \A q \in Range(rows) :
                                q.timestamp < timestamp => q.timestamp <= r.timestamp}
\* SELECT document_hash FROM receipts WHERE document_hash = ? AND timestamp < ?
SelectPrevious(rows, previous_hash, timestamp) ==
    {r \in Range(rows) : r.document_hash = previous_hash /\ r.timestamp < timestamp}

\* Fault variant: a broken link reported as an HTTP error.
MismatchAsNotFound(receipt_id) ==
    [op |-> "verify_receipt", status |-> 404, id |-> receipt_id]
\* The response of verify_receipt when no earlier receipt carries previous_hash.
MismatchResponse(receipt_id) ==
    [op |-> "verify_receipt", status |-> 200, id |-> receipt_id, verified |-> FALSE]

\* GET /receipts/verify/{receipt_id}
verify_receipt(receipt_id) ==
    LET result == SelectById(db, receipt_id)
        receipt == CHOOSE r \in result : TRUE
    IN  /\ db' = db
        /\ IF result = {}
           THEN resp' = [op |-> "verify_receipt", status |-> 404, id |-> receipt_id]
           ELSE IF /\ TruthyStr(receipt.previous_hash)
                   /\ SelectPrevious(db, receipt.previous_hash[1], receipt.timestamp) = {}
           THEN resp' = MismatchResponse(receipt_id)
           ELSE resp' = [op |-> "verify_receipt", status |-> 200, id |-> receipt_id,
                         verified |-> TRUE]

\* GET /receipts/{receipt_id}/certificate: renders the fetched receipt; the
\* rendered buffer is handed to the framework's file response.
generate_certificate(receipt_id) ==
    LET result == SelectById(db, receipt_id)
    IN  /\ db' = db
        /\ IF result = {}
           THEN resp' = [op |-> "generate_certificate", status |-> 404, id |-> receipt_id]
           ELSE resp' = [op |-> "generate_certificate", status |-> 200, id |-> receipt_id]

\* GET /health
health_check ==
    /\ db' = db
    /\ resp' = [op |-> "health_check", status |-> 200]

\* ---------------------------------------------------------- request inputs
Requests == {r \in ReceiptCreate : r.metadata = None}
LookupIds == CallerIds \cup {"u1", "u2"}
Limits == {-1, 0, 1, 2, 10}
Offsets == {-1, 0, 1, 2}

\* The handler's return value leaves as the HTTP response; the server takes
\* the next request.
NoResponse == [op |-> "none", status |-> 0]
send_response ==
    /\ resp # NoResponse
    /\ resp' = NoResponse
    /\ db' = db

Idle == resp = NoResponse

\* Requests served one after another, each response sent before the next
\* request is taken.
Next ==
    \/ \E receipt \in Requests, storage_error \in BOOLEAN :
           Idle /\ create_receipt(receipt, storage_error)
    \/ \E receipt_id \in LookupIds, html \in BOOLEAN :
           Idle /\ get_receipt(receipt_id, html)
    \/ \E limit \in Limits, offset \in Offsets :
           Idle /\ list_receipts(limit, offset)
    \/ \E receipt_id \in LookupIds : Idle /\ verify_receipt(receipt_id)
    \/ \E receipt_id \in LookupIds : Idle /\ generate_certificate(receipt_id)
    \/ Idle /\ health_check
    \/ send_response

Spec == Init /\ [][Next]_vars

\* The same server observed request by request: resp holds the latest
\* response until the next handler replaces it.  The appends here are those
\* that leave the id to the server and meet no storage error.
NextBackToBack ==
    \/ \E receipt \in {r \in Requests : r.id = None} :
           create_receipt(receipt, FALSE)
    \/ \E receipt_id \in LookupIds, html \in BOOLEAN : get_receipt(receipt_id, html)
    \/ \E limit \in Limits, offset \in Offsets : list_receipts(limit, offset)
    \/ \E receipt_id \in LookupIds : verify_receipt(receipt_id)
    \/ \E receipt_id \in LookupIds : generate_certificate(receipt_id)
    \/ health_check

SpecBackToBack == Init /\ [][NextBackToBack]_vars

\* Appends that carry metadata: absent, an empty dict, or a dict with one
\* entry.  The other fields are held to one document hash and one timestamp.
MetaRequests ==
    {r \in ReceiptCreate : /\ r.id # Some("")
                           /\ r.document_hash = "h1"
                           /\ r.timestamp = 1}

\* The server observed request by request, serving appends with metadata and
\* gets.
NextMeta ==
    \/ \E receipt \in MetaRequests, storage_error \in BOOLEAN :
           create_receipt(receipt, storage_error)
    \/ \E receipt_id \in LookupIds, html \in BOOLEAN : get_receipt(receipt_id, html)

SpecMeta == Init /\ [][NextMeta]_vars

\* list_receipts query by query.  Between its two SELECTs the handler holds
\* the count it has read; resp carries that position with status 0 until the
\* handler returns.
InListReceipts == resp.op = "list_receipts" /\ resp.status = 0

\* Fault variant: another request is taken while a handler is still running.
EventLoopShared == TRUE
\* The handlers are coroutines that never await, run by the one event loop of
\* uvicorn.run: a request is taken only when no handler is running.
EventLoopFree == ~InListReceipts

\* SELECT COUNT(*) FROM receipts
list_receipts_count(limit, offset) ==
    /\ db' = db
    /\ resp' = [op |-> "list_receipts", status |-> 0,
                total |-> Len(db), offset |-> offset, limit |-> limit,
                receipts |-> <<>>]

\* SELECT * FROM receipts ORDER BY timestamp DESC LIMIT ? OFFSET ?, and the
\* return of the handler.
list_receipts_page ==
    LET results == LimitOffset(OrderByTimestampDesc(db), resp.limit, resp.offset)
    IN  /\ InListReceipts
        /\ db' = db
        /\ resp' = [resp EXCEPT
                       !.status = 200,
                       !.receipts = [i \in 1..Len(results) |-> RowToReceipt(results[i])]]

ListRequests == {r \in Requests : r.id = None /\ r.document_hash = "h1"}

\* A successful POST /receipts of another client: the row is stored as
\* create_receipt stores it; its response goes to that client, so resp, the
\* listing client's view, is left as it is.
create_receipt_other_client(receipt) ==
    /\ db' = InsertRow(db, [id |-> FreshUuid,
                            document_hash |-> receipt.document_hash,
                            signature |-> receipt.signature,
                            timestamp |-> receipt.timestamp,
                            type |-> receipt.type,
                            previous_hash |-> get_latest_receipt_hash(db),
                            metadata |-> None])
    /\ Len(db') <= MaxReceipts
    /\ resp' = resp

\* Appends by other clients and lists by the observed one, the list taken
\* one query at a time.
NextListQueries ==
    \/ \E receipt \in ListRequests :
           EventLoopFree /\ create_receipt_other_client(receipt)
    \/ \E limit \in Limits, offset \in Offsets :
           EventLoopFree /\ list_receipts_count(limit, offset)
    \/ list_receipts_page

SpecListQueries == Init /\ [][NextListQueries]_vars

\* ------------------------------------------------------------ the signer
\* signer/app.py, a second service.  Its /sign handler posts to the ledger
\* above; resp is here the signer's response to its client.
\*
\* The bytes of a PDF file are modelled by what PyPDF2 reads from them: the
\* pages and the document information entries /PQC-Signature and
\* /PQC-SignatureDate.  Bytes that PyPDF2 cannot read have no pages.
Pages == {"p1"}
NotAPdf == [pages |-> "", info |-> None]
UnsignedPdfs == {[pages |-> p, info |-> None] : p \in Pages}
Readable(data) == data.pages # ""

\* hashlib.sha256(data).hexdigest(), and its first 16 hex digits: a value
\* determined by the bytes; different bytes of the model have different
\* digests.
Sha256Hex(data) == <<"sha256", data>>
Sha256Hex16(data) == <<"sha256[:16]", data>>

\* def sign_with_dilithium: "DILITHIUM-SIGNATURE-" + sha256(data)[:16]
sign_with_dilithium(data) ==
    [scheme |-> "DILITHIUM-SIGNATURE", digest |-> Sha256Hex16(data)]

\* def verify_dilithium_signature: regenerate over data and compare
verify_dilithium_signature(data, signature) ==
    signature = [scheme |-> "DILITHIUM-SIGNATURE", digest |-> Sha256Hex16(data)]

\* def sign_pdf: the signature is made over the uploaded bytes; the returned
\* file holds the copied pages and the new information entries.
sign_pdf(pdf_data, now) ==
    LET signature == sign_with_dilithium(pdf_data)
    IN  <<[pages |-> pdf_data.pages,
           info |-> Some([signature |-> signature, date |-> now])],
          signature>>

\* def extract_signature_from_pdf
extract_signature_from_pdf(pdf_data) ==
    IF Readable(pdf_data) /\ pdf_data.info # None
    THEN Some(pdf_data.info[1].signature)
    ELSE None

\* What requests.post in store_receipt meets: the ledger stores the receipt
\* and answers 201; it answers another status and stores nothing; it cannot
\* be reached; or it stores the receipt but its answer does not arrive
\* within the timeout.
PostOutcomes == {"201", "rejected", "unreachable", "timeout"}

\* def store_receipt: the effect on the ledger.  receipt_id is returned in
\* every branch.
store_receipt(pdf_data, signature, receipt_id, now, outcome) ==
    IF outcome \in {"201", "timeout"}
    THEN db' = InsertRow(db, [id |-> receipt_id,
                              document_hash |-> Sha256Hex(pdf_data),
                              signature |-> signature,
                              timestamp |-> now,
                              type |-> "pdf_signing",
                              previous_hash |-> get_latest_receipt_hash(db),
                              metadata |-> None])
    ELSE db' = db

Filenames == {"doc.pdf", "doc.txt"}
EndsWithPdf(filename) == filename = "doc.pdf"

\* POST /sign.  now1, now2: the two readings of datetime.now().
sign_pdf_endpoint(filename, pdf_data, now1, now2, outcome) ==
    IF ~EndsWithPdf(filename)
    THEN /\ db' = db
         /\ resp' = [op |-> "sign_pdf_endpoint", status |-> 400]
    ELSE IF ~Readable(pdf_data)
    THEN /\ db' = db
         /\ resp' = [op |-> "sign_pdf_endpoint", status |-> 500]
    ELSE LET signed == sign_pdf(pdf_data, now1)
             receipt_id == FreshUuid
         IN  /\ store_receipt(signed[1], signed[2], receipt_id, now2, outcome)
             /\ Len(db') <= MaxReceipts
             /\ resp' = [op |-> "sign_pdf_endpoint", status |-> 200,
                         file |-> signed[1], signature |-> signed[2],
                         receipt_id |-> receipt_id]

\* POST /verify.  The response record also names the upload it answers.
verify_pdf_endpoint(filename, pdf_data) ==
    LET signature == extract_signature_from_pdf(pdf_data)
    IN  /\ db' = db
        /\ IF ~EndsWithPdf(filename)
           THEN resp' = [op |-> "verify_pdf_endpoint", status |-> 400,
                         filename |-> filename, file |-> pdf_data,
                         detail |-> "Only PDF files are supported"]
           ELSE IF signature = None
           THEN resp' = [op |-> "verify_pdf_endpoint", status |-> 400,
                         filename |-> filename, file |-> pdf_data,
                         verified |-> FALSE,
                         error |-> "No signature found in the PDF"]
           ELSE resp' = [op |-> "verify_pdf_endpoint", status |-> 200,
                         filename |-> filename, file |-> pdf_data,
                         verified |-> verify_dilithium_signature(pdf_data, signature[1]),
                         signature |-> signature[1]]

\* Files a client uploads: unsigned PDFs, bytes that are no PDF, and files a
\* /sign call returns.
SignUploads == UnsignedPdfs \cup {NotAPdf}
SignedPdfs == {sign_pdf(pdf_data, now)[1] : pdf_data \in UnsignedPdfs, now \in Timestamps}
VerifyUploads == SignUploads \cup SignedPdfs

NextSigner ==
    \/ \E filename \in Filenames, pdf_data \in SignUploads,
          now1 \in Timestamps, now2 \in Timestamps, outcome \in PostOutcomes :
           now1 <= now2 /\ sign_pdf_endpoint(filename, pdf_data, now1, now2, outcome)
    \/ \E filename \in Filenames, pdf_data \in VerifyUploads :
           verify_pdf_endpoint(filename, pdf_data)

SpecSigner == Init /\ [][NextSigner]_vars

\* ================================================================= claims

RowIds(rows) == {r.id : r \in Range(rows)}
MaxTimestamp(rows) == CHOOSE t \in {r.timestamp : r \in Range(rows)} :
                          \A r \in Range(rows) : r.timestamp <= t

\* C1: an append whose id is already stored is answered 400 and leaves the
\* table exactly as it was; no second row with that id ever appears.
C1_DuplicateIdRejected ==
    [][ /\ (resp'.op = "create_receipt" /\ resp'.status # 500 /\ resp'.id \in RowIds(db))
            => (resp'.status = 400 /\ db' = db)
        /\ \A i, j \in 1..Len(db') : db'[i].id = db'[j].id => i = j ]_vars

\* C1 witness: a duplicate append was just rejected and its id is stored.
C1_Witness ==
    /\ resp.op = "create_receipt"
    /\ resp.status = 400
    /\ resp.id \in RowIds(db)
    /\ Len(db) >= 2

\* C2: every stored receipt's previous_hash is null exactly when it was the
\* first row, and otherwise is the document_hash of a receipt that had the
\* greatest timestamp among the rows stored before it.
C2_LinksToTipAtInsertion ==
    \A i \in 1..Len(db) :
        LET before == SubSeq(db, 1, i - 1)
        IN  /\ (db[i].previous_hash = None) <=> (before = <<>>)
            /\ before # <<>> =>
                 \E j \in 1..(i - 1) :
                     /\ before[j].timestamp = MaxTimestamp(before)
                     /\ db[i].previous_hash = Some(before[j].document_hash)

\* C2 witness: three receipts; the third links to the first, which had the
\* greatest timestamp, and not to the second.
C2_Witness ==
    /\ Len(db) = 3
    /\ db[1].previous_hash = None
    /\ db[2].previous_hash = Some(db[1].document_hash)
    /\ db[1].timestamp > db[2].timestamp
    /\ db[1].document_hash # db[2].document_hash
    /\ db[3].previous_hash = Some(db[1].document_hash)

\* C3 (as claimed, for receipts with pairwise distinct document hashes and
\* pairwise distinct timestamps): the appends form one chain: no two stored
\* receipts have the same previous_hash, and at most one has a null
\* previous_hash.
C3_SingleChain ==
    (\A i, j \in 1..Len(db) :
         i # j => /\ db[i].document_hash # db[j].document_hash
                  /\ db[i].timestamp # db[j].timestamp)
    => \A i, j \in 1..Len(db) :
           i # j => db[i].previous_hash # db[j].previous_hash

\* The row stored under an id (ids are unique, C1).
RowOf(id) == CHOOSE r \in Range(db) : r.id = id

\* The link condition of the verifier as the claim states it: previous_hash is
\* absent, or some stored receipt with a strictly smaller timestamp carries it.
LinkHolds(r) ==
    \/ r.previous_hash = None
    \/ \E q \in Range(db) :
           /\ Some(q.document_hash) = r.previous_hash
           /\ q.timestamp < r.timestamp

\* C4 (as claimed): a verify response for a stored receipt says verified = TRUE
\* exactly when the receipt's link condition holds.
C4_VerifyIffLink ==
    (resp.op = "verify_receipt" /\ resp.status = 200)
    => (resp.verified <=> LinkHolds(RowOf(resp.id)))

\* C5: every stored row is still stored, field for field, after every step.
C5_RowsNeverChange ==
    [][ Range(db) \subseteq Range(db') /\ Len(db') >= Len(db) ]_vars

\* C5 witness: reads and a further append have run over a stored receipt.
C5_Witness ==
    /\ Len(db) = 3
    /\ resp.op = "generate_certificate"
    /\ resp.status = 200

\* The shape of a complete row: every NOT NULL column holds a value.
CompleteRows ==
    [id : CallerIds \cup Range(UuidSeq),
     document_hash : DocumentHashes,
     signature : Signatures,
     timestamp : Timestamps,
     type : Types,
     previous_hash : {None} \cup {Some(h) : h \in DocumentHashes},
     metadata : {None} \cup {Some(JsonDumps(d)) : d \in Dicts}]

\* C6: an append answered 400 or 500 leaves the table unchanged, an append
\* answered 201 adds exactly one complete row, and the table never holds an
\* incomplete row for a reader to see.
C6_AppendAllOrNothing ==
    [][ /\ (resp'.op = "create_receipt" /\ resp'.status \in {400, 500}) => db' = db
        /\ (resp'.op = "create_receipt" /\ resp'.status = 201)
             => (Len(db') = Len(db) + 1 /\ SubSeq(db', 1, Len(db)) = db)
        /\ Range(db') \subseteq CompleteRows ]_vars

\* C6 witness: a storage failure was answered on a table that holds receipts.
C6_Witness ==
    /\ resp.op = "create_receipt"
    /\ resp.status = 500
    /\ resp.id \notin RowIds(db)
    /\ Len(db) = 2

\* C7: get and verify answer 404 exactly when the id is not stored; a verify
\* of a stored receipt is answered 200 with verified TRUE or FALSE, so a
\* broken link is a result and not an error.
C7_NotFoundIffAbsent ==
    /\ resp.op \in {"get_receipt", "verify_receipt"}
         => /\ resp.status \in {200, 404}
            /\ (resp.status = 404) <=> (resp.id \notin RowIds(db))
    /\ (resp.op = "verify_receipt" /\ resp.id \in RowIds(db))
         => (resp.status = 200 /\ resp.verified \in BOOLEAN)

\* C7 witness: a broken link was reported as a 200 response with verified FALSE.
C7_Witness ==
    /\ resp.op = "verify_receipt"
    /\ resp.status = 200
    /\ resp.verified = FALSE

ReadOps == {"get_receipt", "list_receipts", "verify_receipt"}

\* C8: get, list and verify leave the table unchanged, and a read repeated
\* with the same arguments right after itself is answered identically.
C8_ReadsAreIdempotent ==
    [][ resp'.op \in ReadOps =>
          /\ db' = db
          /\ (resp.op = resp'.op /\ resp.op \in {"get_receipt", "verify_receipt"}
                /\ resp.id = resp'.id /\ resp.status = resp'.status
                /\ (resp.op = "get_receipt" /\ resp.status = 200 => resp.html = resp'.html))
               => resp' = resp
          /\ (resp.op = resp'.op /\ resp.op = "list_receipts"
                /\ resp.limit = resp'.limit /\ resp.offset = resp'.offset)
               => resp' = resp ]_vars

\* C8 witness: a get was answered from a table that holds receipts.
C8_Witness ==
    /\ resp.op = "get_receipt"
    /\ resp.status = 200
    /\ Len(db) >= 2

\* C9: a list response is in non-increasing timestamp order and its total is
\* the number of stored receipts, for every limit and offset.
C9_ListOrderedWithTotal ==
    resp.op = "list_receipts" =>
        /\ resp.total = Len(db)
        /\ \A i, j \in 1..Len(resp.receipts) :
               i < j => resp.receipts[i].timestamp >= resp.receipts[j].timestamp

\* C9 witness: a page of three receipts with differing timestamps, stored in
\* another order than they are listed.
C9_Witness ==
    /\ resp.op = "list_receipts"
    /\ Len(resp.receipts) = 3
    /\ resp.receipts[1].timestamp > resp.receipts[3].timestamp
    /\ db[1].timestamp < db[2].timestamp
    /\ resp.limit < resp.total

Min(a, b) == IF a < b THEN a ELSE b
Max(a, b) == IF a > b THEN a ELSE b

\* s lists every stored receipt once (ids are unique), greatest timestamp first.
IsTimestampDescending(s) ==
    /\ Len(s) = Len(db)
    /\ Range(s) = {RowToReceipt(r) : r \in Range(db)}
    /\ \A i, j \in 1..Len(s) : i < j => s[i].timestamp >= s[j].timestamp

\* C10: for limit >= 0 and offset >= 0 a list response holds
\* min(limit, max(0, total - offset)) receipts, and they are the receipts at
\* positions offset .. offset+limit-1 of a timestamp-descending sequence of
\* the whole table.
C10_ListPage ==
    (resp.op = "list_receipts" /\ resp.limit >= 0 /\ resp.offset >= 0) =>
        /\ Len(resp.receipts) = Min(resp.limit, Max(0, resp.total - resp.offset))
        /\ \E s \in [1..Len(db) -> {RowToReceipt(r) : r \in Range(db)}] :
               /\ IsTimestampDescending(s)
               /\ \A i \in 1..Len(resp.receipts) :
                      resp.receipts[i] = s[resp.offset + i]

\* C10 witness: a page taken from the middle of the table, and a limit above
\* the total.
C10_Witness ==
    /\ resp.op = "list_receipts"
    /\ resp.total = 3
    /\ \/ (resp.limit = 1 /\ resp.offset = 1 /\ Len(resp.receipts) = 1)
       \/ (resp.limit = 10 /\ resp.offset = 0 /\ Len(resp.receipts) = 3)

\* What a get of a stored id returns over the table rows.
GetBody(rows, id) == RowToReceipt(CHOOSE r \in Range(rows) : r.id = id)

\* C11: the body of a 201 append response is what a get of that id returns
\* from then on: it equals the stored record in all seven fields when the
\* append returns, no later step changes what a get of a stored id returns,
\* and every 200 get response carries that record.
C11_AppendReturnsStoredRecord ==
    [][ /\ (resp'.op = "create_receipt" /\ resp'.status = 201)
             => /\ resp'.id \in RowIds(db')
                /\ resp'.body = GetBody(db', resp'.id)
        /\ \A id \in RowIds(db) :
               id \in RowIds(db') /\ GetBody(db', id) = GetBody(db, id)
        /\ (resp'.op = "get_receipt" /\ resp'.status = 200
              /\ resp.op = "create_receipt" /\ resp.status = 201
              /\ resp.id = resp'.id)
             => resp'.body = resp.body ]_vars

\* C11 witness: a get returned a receipt with metadata and a resolved
\* previous_hash after a later append had been stored.
C11_Witness ==
    /\ resp.op = "get_receipt"
    /\ resp.status = 200
    /\ resp.body.metadata = Some({<<"k", "v">>})
    /\ resp.body.previous_hash # None
    /\ Len(db) = 3
    /\ resp.id = db[2].id

\* C12 (as claimed): after a 201 append of a request, a get of the stored
\* receipt returns the metadata the request supplied: a supplied dict, the
\* empty one included, comes back equal, and absent metadata comes back absent.
C12_MetadataRoundTrips ==
    [][ \A receipt \in MetaRequests :
            (create_receipt(receipt, FALSE) /\ resp'.status = 201)
            => GetBody(db', resp'.id).metadata = receipt.metadata ]_vars

\* C13: a 201 append of r makes r.document_hash the tip when r.timestamp is
\* strictly greater than every timestamp stored before, and leaves the tip
\* as it was otherwise, an r.timestamp equal to the previous maximum
\* included; the receipt that carried the earlier tip is still returned by a
\* get of its id.
C13_TipAdvancesOnNewMaximum ==
    [][ (resp'.op = "create_receipt" /\ resp'.status = 201) =>
          LET r == db'[Len(db')]
          IN  /\ r.id = resp'.id
              /\ get_latest_receipt_hash(db') =
                     IF \A q \in Range(db) : r.timestamp > q.timestamp
                     THEN Some(r.document_hash)
                     ELSE get_latest_receipt_hash(db)
              /\ \A q \in Range(db) :
                     /\ q.id \in RowIds(db')
                     /\ GetBody(db', q.id) = GetBody(db, q.id)
              /\ db # <<>> =>
                     \E q \in Range(db') :
                         /\ q.id # r.id
                         /\ Some(q.document_hash) = get_latest_receipt_hash(db) ]_vars

\* C13 witness: a third receipt was stored whose timestamp equals the greatest
\* one stored before and whose hash differs from the tip; the tip stayed.
C13_Witness ==
    /\ resp.op = "create_receipt"
    /\ resp.status = 201
    /\ Len(db) = 3
    /\ db[3].timestamp = MaxTimestamp(SubSeq(db, 1, 2))
    /\ get_latest_receipt_hash(db) # Some(db[3].document_hash)
    /\ get_latest_receipt_hash(db) = get_latest_receipt_hash(SubSeq(db, 1, 2))

\* C14 (as claimed): an append whose timestamp is not later than the tip's
\* and whose id is not stored is answered 201 and stored with previous_hash
\* equal to the tip's document_hash; and a verify of a stored receipt whose
\* previous_hash is carried by no stored receipt with a strictly smaller
\* timestamp answers verified = FALSE.
C14_OutOfOrderStoredThenVerifyFalse ==
    [][ /\ \A receipt \in Requests :
               (/\ create_receipt(receipt, FALSE)
                /\ db # <<>>
                /\ receipt.timestamp <= MaxTimestamp(db)
                /\ resp'.id \notin RowIds(db))
               => /\ resp'.status = 201
                  /\ db'[Len(db')].timestamp = receipt.timestamp
                  /\ db'[Len(db')].previous_hash = get_latest_receipt_hash(db)
                  /\ db'[Len(db')].previous_hash # None
        /\ (resp'.op = "verify_receipt" /\ resp'.status = 200) =>
               LET r == GetBody(db', resp'.id)
               IN  (/\ r.previous_hash # None
                    /\ SelectPrevious(db', r.previous_hash[1], r.timestamp) = {})
                   => resp'.verified = FALSE ]_vars

\* The receipt that was the tip when the row at position i was appended.
TipAtAppend(i) == OrderByTimestampDesc(SubSeq(db, 1, i - 1))[1]

\* C15: verify answers verified = TRUE whenever any other stored receipt with
\* a strictly smaller timestamp carries the receipt's previous_hash, whether
\* or not that receipt was the tip when the verified one was appended.
C15_VerifyMatchesAnyEarlierReceipt ==
    (resp.op = "verify_receipt" /\ resp.status = 200) =>
        LET r == RowOf(resp.id)
        IN  (\E q \in Range(db) :
                 /\ q.id # r.id
                 /\ Some(q.document_hash) = r.previous_hash
                 /\ q.timestamp < r.timestamp)
            => resp.verified = TRUE

\* C15 witness: verify answered TRUE for a receipt whose tip at append time
\* has a timestamp not earlier than its own; the match is another receipt
\* with the same document_hash as that tip.
C15_Witness ==
    /\ resp.op = "verify_receipt"
    /\ resp.status = 200
    /\ resp.verified = TRUE
    /\ \E i \in 2..Len(db) :
           /\ db[i].id = resp.id
           /\ TruthyStr(db[i].previous_hash)
           /\ TipAtAppend(i).timestamp >= db[i].timestamp
           /\ db[i].previous_hash = Some(TipAtAppend(i).document_hash)
           /\ \E q \in Range(db) :
                  /\ q.id # TipAtAppend(i).id
                  /\ q.document_hash = TipAtAppend(i).document_hash
                  /\ q.timestamp < db[i].timestamp

\* Every append so far carried a timestamp strictly greater than every
\* timestamp stored before it.
TimestampsIncreasing ==
    \A i, j \in 1..Len(db) : i < j => db[i].timestamp < db[j].timestamp

\* The stored document hashes are pairwise distinct.
HashesDistinct ==
    \A i, j \in 1..Len(db) : i # j => db[i].document_hash # db[j].document_hash

\* C16: when every append carried a timestamp strictly greater than every
\* stored one, the link condition holds for every stored receipt and every
\* verify of a stored receipt answers verified = TRUE.
C16_InOrderAppendsAllVerify ==
    TimestampsIncreasing =>
        /\ \A r \in Range(db) : LinkHolds(r)
        /\ \A r \in Range(db) :
               ~(/\ TruthyStr(r.previous_hash)
                 /\ SelectPrevious(db, r.previous_hash[1], r.timestamp) = {})
        /\ (resp.op = "verify_receipt" /\ resp.status = 200) => resp.verified = TRUE

\* C16 witness: the third of three in-order receipts, linked to a non-empty
\* hash, was verified.
C16_Witness ==
    /\ TimestampsIncreasing
    /\ Len(db) = 3
    /\ resp.op = "verify_receipt"
    /\ resp.status = 200
    /\ resp.id = db[3].id
    /\ TruthyStr(db[3].previous_hash)

\* C17: when timestamps strictly increase in append order and the document
\* hashes are pairwise distinct, the first receipt alone has a null
\* previous_hash, every other receipt links to the one appended just before
\* it, and no two receipts share a previous_hash.
C17_InOrderDistinctFormOneChain ==
    (TimestampsIncreasing /\ HashesDistinct) =>
        /\ \A i \in 1..Len(db) :
               /\ (db[i].previous_hash = None) <=> (i = 1)
               /\ i > 1 => db[i].previous_hash = Some(db[i - 1].document_hash)
        /\ \A i, j \in 1..Len(db) :
               i # j => db[i].previous_hash # db[j].previous_hash

\* C17 witness: a chain of three receipts in timestamp order.
C17_Witness ==
    /\ TimestampsIncreasing
    /\ HashesDistinct
    /\ Len(db) = 3
    /\ db[3].previous_hash = Some(db[2].document_hash)

\* Two stored receipts share a previous_hash.
SharedPreviousHash ==
    \E i, j \in 1..Len(db) : i # j /\ db[i].previous_hash = db[j].previous_hash

\* C17, second sentence: states the serialized server reaches when one
\* precondition is dropped: distinct hashes with a timestamp out of order,
\* distinct hashes with an equal timestamp, and increasing timestamps with a
\* repeated hash, each with a shared previous_hash.
C17_ForkAfterOutOfOrderTimestamp ==
    /\ HashesDistinct
    /\ \A i, j \in 1..Len(db) : i # j => db[i].timestamp # db[j].timestamp
    /\ SharedPreviousHash
C17_ForkAfterEqualTimestamp ==
    /\ HashesDistinct
    /\ \A i, j \in 1..Len(db) : i < j => db[i].timestamp <= db[j].timestamp
    /\ SharedPreviousHash
C17_ForkAfterRepeatedHash ==
    /\ TimestampsIncreasing
    /\ SharedPreviousHash

\* The answer verify_receipt gives for a stored id over the table rows.
Verified(rows, id) ==
    LET r == CHOOSE q \in Range(rows) : q.id = id
    IN  ~(/\ TruthyStr(r.previous_hash)
          /\ SelectPrevious(rows, r.previous_hash[1], r.timestamp) = {})

\* C18: a stored receipt that verifies TRUE in a state verifies TRUE in the
\* next state, so a TRUE answer is never followed by a FALSE one for the same
\* id; every verify response of a stored id carries that answer.
C18_VerifiedStaysVerified ==
    [][ /\ \A id \in RowIds(db) :
               Verified(db, id) => (id \in RowIds(db') /\ Verified(db', id))
        /\ (resp'.op = "verify_receipt" /\ resp'.status = 200)
             => resp'.verified = Verified(db', resp'.id) ]_vars

\* C18 witness: verify answers TRUE for a receipt that verified FALSE until a
\* later append stored a receipt with the matching document_hash and a
\* smaller timestamp.
C18_Witness ==
    /\ resp.op = "verify_receipt"
    /\ resp.status = 200
    /\ resp.verified = TRUE
    /\ \E i, j \in 1..Len(db) :
           /\ i < j
           /\ db[i].id = resp.id
           /\ ~Verified(SubSeq(db, 1, j - 1), db[i].id)
           /\ Some(db[j].document_hash) = db[i].previous_hash
           /\ db[j].timestamp < db[i].timestamp

\* C19: a list response, its count and its page read by two queries, is the
\* response one single table state gives: the total is the number of rows of
\* the table the page was read from, the page is the requested slice of that
\* table, and the page never holds more receipts than the total.
C19_ListFromOneState ==
    [][ /\ (resp'.op = "list_receipts" /\ resp'.status = 200)
             => Len(resp'.receipts) <= resp'.total
        /\ (InListReceipts /\ resp'.op = "list_receipts" /\ resp'.status = 200) =>
             LET results == LimitOffset(OrderByTimestampDesc(db'),
                                        resp'.limit, resp'.offset)
             IN  /\ resp'.total = Len(db')
                 /\ resp'.receipts =
                        [i \in 1..Len(results) |-> RowToReceipt(results[i])] ]_vars

\* C19 witness: a list between appends returned every receipt stored at the
\* time, a page as long as its total, and a further append has been stored
\* since.
C19_Witness ==
    /\ resp.op = "list_receipts"
    /\ resp.status = 200
    /\ resp.total = 2
    /\ Len(resp.receipts) = 2
    /\ Len(db) = 3

\* C20 (as claimed): a file returned by /sign and uploaded unchanged, under
\* a .pdf name, to /verify as the next request is answered 200 with
\* verified = TRUE.
C20_SignThenVerify ==
    [][ (/\ resp.op = "sign_pdf_endpoint" /\ resp.status = 200
         /\ resp'.op = "verify_pdf_endpoint"
         /\ EndsWithPdf(resp'.filename)
         /\ resp'.file = resp.file)
        => (resp'.status = 200 /\ resp'.verified = TRUE) ]_vars

\* C21 (as claimed): a /sign call on a readable .pdf upload is answered 200
\* with the generated receipt id whatever the ledger call meets; and when the
\* ledger call fails, is rejected or times out, no receipt with the returned
\* id is in the ledger.
C21_SignReturnsIdLedgerOrNot ==
    [][ \A filename \in Filenames, pdf_data \in SignUploads,
           now1 \in Timestamps, now2 \in Timestamps, outcome \in PostOutcomes :
            (/\ sign_pdf_endpoint(filename, pdf_data, now1, now2, outcome)
             /\ EndsWithPdf(filename)
             /\ Readable(pdf_data))
            => /\ resp'.status = 200
               /\ resp'.receipt_id \notin RowIds(db)
               /\ outcome = "201" => resp'.receipt_id \in RowIds(db')
               /\ outcome # "201" => resp'.receipt_id \notin RowIds(db') ]_vars

=============================================================================
